---- MODULE Spec2Model ----
(***************************************************************************)
(* Force-feedback rumble core of the TrimUI input proxy.                   *)
(*                                                                         *)
(* Two source variants are modelled side by side, selected by `variant`:   *)
(*   "pwm"   : src/unnamed/part_000          (software PWM, 3000 ms cap)   *)
(*   "plain" : src/trimui_inputd_proxy.c     (on/off only, 5000 ms cap)    *)
(*                                                                         *)
(* Program state: the effect table (slots), the rumble context (active,    *)
(* magnitude, stop_time, pwm_counter), the GPIO gate (g_gpio_fd,           *)
(* g_gpio_last_state) and the upload handshake structure (up).             *)
(* Environment: the monotonic clock (now) and the actuator pin (pin).      *)
(* History: op (the handler that ran last and its inputs), wr (the value   *)
(* the last handler wrote to the pin, or NoWrite), written (the value of   *)
(* the last write issued to the pin), armed (the slot the last armed       *)
(* effect was armed from) and run (the gate commands of the current run of *)
(* PWM ticks).  The main loop adds the variables of proc, devs and hist.   *)
(***************************************************************************)
EXTENDS Integers, Sequences, FiniteSets, TLC

VARIABLES variant, slots, active, magnitude, stop_time, pwm_counter,
          g_gpio_fd, g_gpio_last_state, pin, now, up, op, wr, armed,
          written, run,
          pc, keep_running, status, fds, fail, tlog,
          vq, nmsg, sq, nev, sink, taken, revents,
          iter, wk, after

\* main(): the position of the main thread (pc), the termination flag, the
\* exit status, the open descriptors, the initialisation call that failed,
\* and the calls of the teardown in the order they were made.
proc == <<pc, keep_running, status, fds, fail, tlog>>

\* The two devices: the control messages pending on the virtual device (vq)
\* and how many arrived so far, the events pending on the physical device
\* (sq) and how many arrived so far, the events written to the virtual
\* device (sink), the events read from the physical one (taken), and the
\* readiness poll() reported last.
devs == <<vq, nmsg, sq, nev, sink, taken, revents>>

\* History kept per iteration (iter), per wakeup (wk) and since the
\* termination flag was cleared (after).
hist == <<iter, wk, after>>

\* What the scenarios of the handlers alone do not follow.
aux == <<run, proc, devs, hist>>

vars == <<variant, slots, active, magnitude, stop_time, pwm_counter,
          g_gpio_fd, g_gpio_last_state, pin, now, up, op, wr, armed,
          written, aux>>

\* The rumble context and the gate: what a control message may change.
ctx == <<slots, active, magnitude, stop_time, pwm_counter,
         g_gpio_last_state, pin>>

(***************************************************************************)
(* Program constants                                                       *)
(***************************************************************************)
RUMBLE_MAX_EFFECTS == 16
RUMBLE_DEADZONE == 2000
PWM_THRESHOLD == 40000
SAFETY_TIMEOUT_MS == 3000
RUMBLE_MAX_DURATION_MS == 5000
PLAIN_DEFAULT_MS == 200
RUMBLE_STRENGTH == 100
ENOSPC == 28
\* The largest value of replay.length, a 16-bit field.
U16_MAX == 65535
EINVAL == 22

(***************************************************************************)
(* Bounds of the model                                                     *)
(***************************************************************************)
\* The clock is followed until it has reached MaxSeconds seconds.
MaxSeconds == 6
\* The PWM branch of rumble_tick is taken while pwm_counter < MaxPwmCounter.
MaxPwmCounter == 4
\* The PWM scenarios follow pwm_counter up to MaxPwmRun: two periods.
MaxPwmRun == 8

\* Control messages that arrive in the main-loop scenarios.
MaxMsgs == 3
\* Physical events that arrive in the main-loop scenarios.
MaxEvents == 1
\* Control messages and physical events that arrive in the shutdown
\* scenarios.
MaxShutdownMsgs == 1
MaxShutdownEvents == 1
\* The duration scenarios follow the clock up to MaxDurSeconds seconds.
MaxDurSeconds == 1

NoWrite == 0 - 1
NoStatus == 0 - 1
NoId == 0 - 1
NeverCommanded == 0 - 1

\* Amounts of time (ms) that may pass between two handlers: with 1500 the
\* clock meets the deadlines of 1500, 3000 and 5000 ms exactly, passes the
\* one of 200 ms, and makes timespec_add_ms carry into the seconds.
ClockSteps == {1500}

\* Effect identifiers carried by erase and play messages: two slots of the
\* table and one identifier past it.
Ids == {0, 1, RUMBLE_MAX_EFFECTS}

\* Identifiers named by upload requests: slot 1 is never filled, so that
\* erase and play meet a slot in use, a free slot and no slot at all.
UploadIds == {0, RUMBLE_MAX_EFFECTS}

\* Repeat counts carried by a play message: 0 stops, 1 plays.
Repeats == {0, 1}

\* struct ff_effect, the fields the program reads or writes.
Effect(t, i, s, w, l) ==
    [type |-> t, id |-> i, strong |-> s, weak |-> w, length |-> l]

\* Effects an upload request may carry (the id is filled in per request):
\* silent, just below the deadzone, exactly at the deadzone, exactly at the
\* full-drive threshold, and a kind the program does not store; with
\* durations zero (default), short and beyond both ceilings.
Silent == [type |-> "FF_RUMBLE", strong |-> 0, weak |-> 0, length |-> 1500]
Faint == [type |-> "FF_RUMBLE", strong |-> 1999, weak |-> 0, length |-> 0]
Weak == [type |-> "FF_RUMBLE", strong |-> 1000, weak |-> 1000, length |-> 1500]
Strong == [type |-> "FF_RUMBLE", strong |-> 20000, weak |-> 20000, length |-> 6000]
Periodic == [type |-> "FF_PERIODIC", strong |-> 0, weak |-> 0, length |-> 1500]
\* Just below the full-drive threshold, with the default duration.
Medium == [type |-> "FF_RUMBLE", strong |-> 20000, weak |-> 19999, length |-> 0]

EffectKinds == {Silent, Faint, Weak, Strong, Periodic}

\* Upload requests of the driver scenarios: any kind, for a named slot.
UploadRequests == UploadIds \X EffectKinds

\* Upload requests of the table scenarios: without an identifier (NoId), for
\* the second and the last slot, and for an identifier past the table.
StoreRequests ==
    ({NoId} \X {Strong, Periodic})
        \cup ({1, RUMBLE_MAX_EFFECTS - 1, RUMBLE_MAX_EFFECTS}
                \X {Weak, Strong, Periodic})

SlotIndex == 0 .. (RUMBLE_MAX_EFFECTS - 1)

\* rumble_ctx_t rumble = {0} / memset(state, 0, sizeof(*state))
ZeroEffect == Effect("0", 0, 0, 0, 0)
ZeroSlot == [effect |-> ZeroEffect, in_use |-> FALSE]
ZeroTime == [tv_sec |-> 0, tv_nsec |-> 0]
NoUpload == [type |-> "0", effect_id |-> NoId, retval |-> 0, ret |-> 0]
Op(n, i, v) == [name |-> n, id |-> i, val |-> v]

\* struct pollfd fds[2]: revents of the physical (fds[0]) and of the virtual
\* device (fds[1]), as far as POLLIN goes.
NoReadiness == [src |-> FALSE, virt |-> FALSE]
\* An iteration: how poll() returned, the messages and events pending at
\* that moment, the messages handled, events read and ticks run since.
NoIteration ==
    [res |-> "none", msgs |-> 0, evs |-> 0, done |-> 0, fwd |-> 0, ticks |-> 0]
NoWakeup == [burst |-> FALSE, on |-> FALSE]

(***************************************************************************)
(* Time                                                                    *)
(***************************************************************************)
\* clock_gettime(CLOCK_MONOTONIC): the clock, read at millisecond grain.
timespec_now == [tv_sec |-> now \div 1000, tv_nsec |-> (now % 1000) * 1000000]

timespec_add_ms(ts, ms) ==
    LET sec == ts.tv_sec + (ms \div 1000)
        nsec == ts.tv_nsec + (ms % 1000) * 1000000
    IN  IF nsec >= 1000000000
        THEN [tv_sec |-> sec + 1, tv_nsec |-> nsec - 1000000000]
        ELSE [tv_sec |-> sec, tv_nsec |-> nsec]

\* Variant of timespec_passed that misses the instant of the deadline itself.
timespec_passed_late(stop_at) ==
    IF timespec_now.tv_sec # stop_at.tv_sec
    THEN timespec_now.tv_sec > stop_at.tv_sec
    ELSE timespec_now.tv_nsec > stop_at.tv_nsec

\* timespec_passed(stop_at) / timespec_after(now, stop_time)
timespec_passed(stop_at) ==
    IF timespec_now.tv_sec # stop_at.tv_sec
    THEN timespec_now.tv_sec > stop_at.tv_sec
    ELSE timespec_now.tv_nsec >= stop_at.tv_nsec

\* A timespec as milliseconds (used by the properties only).
Millis(ts) == ts.tv_sec * 1000 + (ts.tv_nsec \div 1000000)

(***************************************************************************)
(* GPIO gate                                                               *)
(***************************************************************************)
\* A handler that does not call gpio_set.
gpio_untouched ==
    /\ UNCHANGED <<g_gpio_last_state, pin, written>>
    /\ wr' = NoWrite

\* Variant of gpio_set without the comparison with the cached state.
gpio_set_always_writes(state) ==
    /\ g_gpio_last_state' = state
    /\ IF g_gpio_fd >= 0
       THEN /\ wr' = state
            /\ written' = state
            /\ pin' \in {state, pin}
       ELSE /\ wr' = NoWrite
            /\ UNCHANGED <<pin, written>>

\* gpio_set(state) / gpio_set_rumble(active): debounced; the write is issued
\* only on an open descriptor, and its failure is ignored.
gpio_set(state) ==
    IF state = g_gpio_last_state
    THEN gpio_untouched
    ELSE /\ g_gpio_last_state' = state
         /\ IF g_gpio_fd >= 0
            THEN /\ wr' = state
                 /\ written' = state
                 /\ pin' \in {state, pin}
            ELSE /\ wr' = NoWrite
                 /\ UNCHANGED <<pin, written>>

(***************************************************************************)
(* Effect table                                                            *)
(***************************************************************************)
\* The first free slot of the table, or NoId when there is none.
FirstFree(tbl) ==
    IF \E i \in SlotIndex : ~tbl[i].in_use
    THEN CHOOSE i \in SlotIndex :
            /\ ~tbl[i].in_use
            /\ \A j \in SlotIndex : j < i => tbl[j].in_use
    ELSE NoId

\* Variant of rumble_upload that stores the effect as the caller sent it,
\* without normalising its id to the slot index.
rumble_upload_raw_id(tbl, eff) ==
    IF eff.type # "FF_RUMBLE"
    THEN [slots |-> tbl, ret |-> 0, id |-> eff.id]
    ELSE LET id == IF eff.id < 0 THEN FirstFree(tbl) ELSE eff.id
         IN  IF eff.id < 0 /\ id < 0
             THEN [slots |-> tbl, ret |-> 0 - ENOSPC, id |-> eff.id]
             ELSE IF eff.id >= 0 /\ id >= RUMBLE_MAX_EFFECTS
             THEN [slots |-> tbl, ret |-> 0 - EINVAL, id |-> eff.id]
             ELSE [slots |-> [tbl EXCEPT ![id] =
                                 [effect |-> eff, in_use |-> TRUE]],
                   ret |-> 0, id |-> id]

\* Variant of rumble_upload that reuses slot 0 when no slot is free.
rumble_upload_evicts(tbl, eff) ==
    IF eff.type # "FF_RUMBLE"
    THEN [slots |-> tbl, ret |-> 0, id |-> eff.id]
    ELSE LET free == FirstFree(tbl)
             id == IF eff.id < 0 THEN (IF free < 0 THEN 0 ELSE free) ELSE eff.id
         IN  IF eff.id >= 0 /\ id >= RUMBLE_MAX_EFFECTS
             THEN [slots |-> tbl, ret |-> 0 - EINVAL, id |-> eff.id]
             ELSE [slots |-> [tbl EXCEPT ![id] =
                                 [effect |-> [eff EXCEPT !.id = id],
                                  in_use |-> TRUE]],
                   ret |-> 0, id |-> id]

\* rumble_upload(ctx, eff) / rumble_upload_effect(state, effect): the table
\* afterwards, the return value and the id left in the caller's effect.
rumble_upload(tbl, eff) ==
    IF eff.type # "FF_RUMBLE"
    THEN [slots |-> tbl, ret |-> 0, id |-> eff.id]
    ELSE LET id == IF eff.id < 0 THEN FirstFree(tbl) ELSE eff.id
         IN  IF eff.id < 0 /\ id < 0
             THEN [slots |-> tbl, ret |-> 0 - ENOSPC, id |-> eff.id]
             ELSE IF eff.id >= 0 /\ id >= RUMBLE_MAX_EFFECTS
             THEN [slots |-> tbl, ret |-> 0 - EINVAL, id |-> eff.id]
             ELSE [slots |-> [tbl EXCEPT ![id] =
                                 [effect |-> [eff EXCEPT !.id = id],
                                  in_use |-> TRUE]],
                   ret |-> 0, id |-> id]

(***************************************************************************)
(* History                                                                 *)
(***************************************************************************)
\* The last handler and its inputs; the upload structure is the
\* handshake's local and is forgotten by every other handler.
Note(n, i, v) == op' = Op(n, i, v)

NoReply == up' = NoUpload

(***************************************************************************)
(* Control messages: upload and erase (the code is the same in both        *)
(* variants)                                                               *)
(***************************************************************************)
\* up.retval as the handshake sets it after rumble_upload has returned.
upload_retval(ret) == 0

\* UI_FF_UPLOAD: UI_BEGIN_FF_UPLOAD, rumble_upload, retval, UI_END_FF_UPLOAD.
\* begin_ok is the outcome of the UI_BEGIN_FF_UPLOAD ioctl.
ff_upload(id, kind, begin_ok) ==
    LET eff == Effect(kind.type, id, kind.strong, kind.weak, kind.length)
        r == rumble_upload(slots, eff)
    IN  /\ IF begin_ok
           THEN /\ slots' = r.slots
                /\ up' = [type |-> eff.type, effect_id |-> r.id,
                          retval |-> upload_retval(r.ret), ret |-> r.ret]
                /\ Note("upload", id, 0)
           ELSE /\ UNCHANGED slots
                /\ NoReply
                /\ Note("refused", NoId, 0)
        /\ gpio_untouched
        /\ UNCHANGED <<variant, active, magnitude, stop_time, pwm_counter,
                       g_gpio_fd, now, armed>>

\* Variant of rumble_erase that frees the slot and leaves the effect running.
rumble_erase_keeps_running(id) ==
    IF id >= 0 /\ id < RUMBLE_MAX_EFFECTS
    THEN /\ slots' = [slots EXCEPT ![id].in_use = FALSE]
         /\ UNCHANGED active
         /\ gpio_untouched
    ELSE /\ UNCHANGED <<slots, active>>
         /\ gpio_untouched

\* Variant of rumble_erase that stops the effect and leaves the gate alone.
rumble_erase_leaves_gate(id) ==
    IF id >= 0 /\ id < RUMBLE_MAX_EFFECTS
    THEN /\ slots' = [slots EXCEPT ![id].in_use = FALSE]
         /\ active' = FALSE
         /\ gpio_untouched
    ELSE /\ UNCHANGED <<slots, active>>
         /\ gpio_untouched

\* rumble_erase(ctx, id) / rumble_erase_effect(state, effect_id)
rumble_erase(id) ==
    IF id >= 0 /\ id < RUMBLE_MAX_EFFECTS
    THEN /\ slots' = [slots EXCEPT ![id].in_use = FALSE]
         /\ active' = FALSE
         /\ gpio_set(0)
    ELSE /\ UNCHANGED <<slots, active>>
         /\ gpio_untouched

\* UI_FF_ERASE: UI_BEGIN_FF_ERASE, rumble_erase, UI_END_FF_ERASE.
ff_erase(id, begin_ok) ==
    /\ IF begin_ok
       THEN /\ rumble_erase(id)
            /\ Note("erase", id, 0)
       ELSE /\ UNCHANGED <<slots, active>>
            /\ gpio_untouched
            /\ Note("refused", NoId, 0)
    /\ NoReply
    /\ UNCHANGED <<variant, magnitude, stop_time, pwm_counter, g_gpio_fd, now,
                   armed>>

(***************************************************************************)
(* Play, PWM variant (src/unnamed/part_000)                                *)
(***************************************************************************)
\* mag = strong_magnitude + weak_magnitude: two 16-bit values, so the sum
\* (at most 131070) is far from the width of uint32_t.
pwm_mag(e) == e.strong + e.weak

\* Variant of pwm_dur that only clamps: a length of 0 stays 0.
pwm_dur_no_default(e) ==
    IF e.length > SAFETY_TIMEOUT_MS THEN SAFETY_TIMEOUT_MS ELSE e.length

\* dur = replay.length; if (dur == 0 || dur > SAFETY_TIMEOUT_MS) dur = SAFETY_TIMEOUT_MS
pwm_dur(e) ==
    IF e.length = 0 \/ e.length > SAFETY_TIMEOUT_MS
    THEN SAFETY_TIMEOUT_MS
    ELSE e.length

\* Variant of rumble_play that looks the slot up before it tests for a stop.
rumble_play_lookup_first(id, val) ==
    IF id < 0 \/ id >= RUMBLE_MAX_EFFECTS \/ ~slots[id].in_use
    THEN /\ UNCHANGED <<active, magnitude, stop_time>>
         /\ gpio_untouched
    ELSE LET e == slots[id].effect
         IN  IF val = 0 \/ pwm_mag(e) < RUMBLE_DEADZONE
             THEN /\ active' = FALSE
                  /\ gpio_set(0)
                  /\ UNCHANGED <<magnitude, stop_time>>
             ELSE /\ magnitude' = pwm_mag(e)
                  /\ stop_time' = timespec_add_ms(timespec_now, pwm_dur(e))
                  /\ active' = TRUE
                  /\ gpio_untouched

\* Variant of rumble_play without the deadzone test.
rumble_play_no_deadzone(id, val) ==
    IF val = 0
    THEN /\ active' = FALSE
         /\ gpio_set(0)
         /\ UNCHANGED <<magnitude, stop_time>>
    ELSE IF id < 0 \/ id >= RUMBLE_MAX_EFFECTS \/ ~slots[id].in_use
    THEN /\ UNCHANGED <<active, magnitude, stop_time>>
         /\ gpio_untouched
    ELSE LET e == slots[id].effect
         IN  /\ magnitude' = pwm_mag(e)
             /\ stop_time' = timespec_add_ms(timespec_now, pwm_dur(e))
             /\ active' = TRUE
             /\ gpio_untouched

\* rumble_play(ctx, id, val)
rumble_play(id, val) ==
    IF val = 0
    THEN /\ active' = FALSE
         /\ gpio_set(0)
         /\ UNCHANGED <<magnitude, stop_time>>
    ELSE IF id < 0 \/ id >= RUMBLE_MAX_EFFECTS \/ ~slots[id].in_use
    THEN /\ UNCHANGED <<active, magnitude, stop_time>>
         /\ gpio_untouched
    ELSE LET e == slots[id].effect
         IN  IF pwm_mag(e) < RUMBLE_DEADZONE
             THEN /\ active' = FALSE
                  /\ gpio_set(0)
                  /\ UNCHANGED <<magnitude, stop_time>>
             ELSE /\ magnitude' = pwm_mag(e)
                  /\ stop_time' = timespec_add_ms(timespec_now, pwm_dur(e))
                  /\ active' = TRUE
                  /\ gpio_untouched

(***************************************************************************)
(* Play, plain variant (src/trimui_inputd_proxy.c)                         *)
(***************************************************************************)
\* mag = max(strong, weak); scaled = (mag * RUMBLE_STRENGTH) / 100; the
\* product of a 16-bit value and 100 is far from the width of uint32_t.
plain_scaled(e) ==
    LET mag == IF e.weak > e.strong THEN e.weak ELSE e.strong
    IN  (mag * RUMBLE_STRENGTH) \div 100

\* dur = replay.length; 0 -> 200; clamp to RUMBLE_MAX_DURATION_MS
plain_dur(e) ==
    LET d == IF e.length = 0 THEN PLAIN_DEFAULT_MS ELSE e.length
    IN  IF d > RUMBLE_MAX_DURATION_MS THEN RUMBLE_MAX_DURATION_MS ELSE d

rumble_play_effect(effect_id, repeat) ==
    IF RUMBLE_STRENGTH = 0
    THEN /\ UNCHANGED <<active, stop_time>>
         /\ gpio_untouched
    ELSE IF repeat = 0 /\ ~active
    THEN /\ UNCHANGED <<active, stop_time>>
         /\ gpio_untouched
    ELSE IF effect_id < 0 \/ effect_id >= RUMBLE_MAX_EFFECTS
    THEN /\ UNCHANGED <<active, stop_time>>
         /\ gpio_untouched
    ELSE IF ~slots[effect_id].in_use
    THEN /\ UNCHANGED <<active, stop_time>>
         /\ gpio_untouched
    ELSE LET e == slots[effect_id].effect
         IN  IF plain_scaled(e) = 0 \/ repeat = 0
             THEN /\ active' = FALSE
                  /\ gpio_set(0)
                  /\ UNCHANGED stop_time
             ELSE /\ stop_time' = timespec_add_ms(timespec_now, plain_dur(e))
                  /\ active' = TRUE
                  /\ gpio_set(1)

\* EV_FF with code != FF_GAIN: the play handler of the running variant
\* (FF_GAIN is 0x60, none of the identifiers of Ids).
ff_play(id, val) ==
    /\ IF variant = "pwm"
       THEN rumble_play(id, val)
       ELSE /\ rumble_play_effect(id, val)
            /\ UNCHANGED magnitude
    /\ armed' = IF val # 0 /\ id \in SlotIndex /\ slots[id].in_use /\ active'
                THEN id ELSE armed
    /\ Note("play", id, val)
    /\ NoReply
    /\ UNCHANGED <<variant, slots, pwm_counter, g_gpio_fd, now>>

(***************************************************************************)
(* Tick                                                                    *)
(***************************************************************************)
\* Variant of rumble_tick whose PWM branch drives one tick in four.
rumble_tick_quarter_duty ==
    IF ~active
    THEN /\ gpio_set(0)
         /\ UNCHANGED <<active, pwm_counter>>
    ELSE IF timespec_passed(stop_time)
    THEN /\ active' = FALSE
         /\ gpio_set(0)
         /\ UNCHANGED pwm_counter
    ELSE IF magnitude >= PWM_THRESHOLD
    THEN /\ gpio_set(1)
         /\ UNCHANGED <<active, pwm_counter>>
    ELSE /\ pwm_counter' = pwm_counter + 1
         /\ IF (pwm_counter' % 4) < 1 THEN gpio_set(1) ELSE gpio_set(0)
         /\ UNCHANGED active

\* Variant of rumble_tick whose full-drive test excludes the threshold itself.
rumble_tick_above_threshold ==
    IF ~active
    THEN /\ gpio_set(0)
         /\ UNCHANGED <<active, pwm_counter>>
    ELSE IF timespec_passed(stop_time)
    THEN /\ active' = FALSE
         /\ gpio_set(0)
         /\ UNCHANGED pwm_counter
    ELSE IF magnitude > PWM_THRESHOLD
    THEN /\ gpio_set(1)
         /\ UNCHANGED <<active, pwm_counter>>
    ELSE /\ pwm_counter' = pwm_counter + 1
         /\ IF (pwm_counter' % 4) < 2 THEN gpio_set(1) ELSE gpio_set(0)
         /\ UNCHANGED active

\* rumble_tick of src/unnamed/part_000: watchdog, full drive, software PWM.
rumble_tick ==
    IF ~active
    THEN /\ gpio_set(0)
         /\ UNCHANGED <<active, pwm_counter>>
    ELSE IF timespec_passed(stop_time)
    THEN /\ active' = FALSE
         /\ gpio_set(0)
         /\ UNCHANGED pwm_counter
    ELSE IF magnitude >= PWM_THRESHOLD
    THEN /\ gpio_set(1)
         /\ UNCHANGED <<active, pwm_counter>>
    ELSE /\ pwm_counter' = pwm_counter + 1
         /\ IF (pwm_counter' % 4) < 2 THEN gpio_set(1) ELSE gpio_set(0)
         /\ UNCHANGED active

\* rumble_tick of src/trimui_inputd_proxy.c: watchdog only.
plain_rumble_tick ==
    IF ~active
    THEN /\ UNCHANGED <<active, pwm_counter>>
         /\ gpio_untouched
    ELSE IF timespec_passed(stop_time)
    THEN /\ active' = FALSE
         /\ gpio_set(0)
         /\ UNCHANGED pwm_counter
    ELSE /\ UNCHANGED <<active, pwm_counter>>
         /\ gpio_untouched

\* The rumble_tick call that ends a main-loop iteration.
loop_tick ==
    /\ IF variant = "pwm" THEN rumble_tick ELSE plain_rumble_tick
    /\ Note("tick", NoId, 0)
    /\ NoReply
    /\ UNCHANGED <<variant, slots, magnitude, stop_time, g_gpio_fd, now, armed>>

(***************************************************************************)
(* State machine                                                           *)
(***************************************************************************)
\* main() before it opens the physical device: the context zeroed,
\* gpio_init() done (the open may have failed), nothing commanded yet, the
\* pin as the previous owner left it, no signal delivered.
Init ==
    /\ variant \in {"pwm", "plain"}
    /\ slots = [i \in SlotIndex |-> ZeroSlot]
    /\ active = FALSE
    /\ magnitude = 0
    /\ stop_time = ZeroTime
    /\ pwm_counter = 0
    /\ g_gpio_fd \in {0 - 1, 3}
    /\ g_gpio_last_state = NeverCommanded
    /\ pin \in {0, 1}
    /\ now = 0
    /\ up = NoUpload
    /\ op = Op("init", NoId, 0)
    /\ wr = NoWrite
    /\ armed = NoId
    /\ written = NoWrite
    /\ run = <<>>
    /\ pc = "open"
    /\ keep_running = 1
    /\ status = NoStatus
    /\ fds = IF g_gpio_fd >= 0 THEN {"gpio"} ELSE {}
    /\ fail = "none"
    /\ tlog = <<>>
    /\ vq = <<>>
    /\ nmsg = 0
    /\ sq = <<>>
    /\ nev = 0
    /\ sink = <<>>
    /\ taken = <<>>
    /\ revents = NoReadiness
    /\ iter = NoIteration
    /\ wk = NoWakeup
    /\ after = [waits |-> 0, ticks |-> 0]

\* An upload request of the driver scenarios.
Upload ==
    \E r \in UploadRequests, begin_ok \in BOOLEAN :
        /\ ff_upload(r[1], r[2], begin_ok)
        /\ UNCHANGED aux

\* An upload request of the table scenarios.
StoreUpload ==
    \E r \in StoreRequests, begin_ok \in BOOLEAN :
        /\ ff_upload(r[1], r[2], begin_ok)
        /\ UNCHANGED aux

Erase ==
    \E id \in Ids, begin_ok \in BOOLEAN :
        /\ ff_erase(id, begin_ok)
        /\ UNCHANGED aux

Play ==
    \E id \in Ids, val \in Repeats :
        /\ ff_play(id, val)
        /\ UNCHANGED aux

\* The PWM counter is followed up to MaxPwmCounter.
Tick ==
    /\ (variant = "pwm" /\ active /\ ~timespec_passed(stop_time)
            /\ magnitude < PWM_THRESHOLD) => pwm_counter < MaxPwmCounter
    /\ loop_tick
    /\ UNCHANGED aux

\* Time passes between two handlers.
Clock ==
    \E d \in ClockSteps :
        /\ now < MaxSeconds * 1000
        /\ now' = now + d
        /\ Note("clock", NoId, 0)
        /\ NoReply
        /\ wr' = NoWrite
        /\ UNCHANGED <<variant, slots, active, magnitude, stop_time,
                       pwm_counter, g_gpio_fd, g_gpio_last_state, pin, armed,
                       written, aux>>

Next == Upload \/ Erase \/ Play \/ Tick \/ Clock

\* The driver scenarios: uploads to one slot, erase, play and stop, ticks,
\* and time passing.
Spec == Init /\ [][Next]_vars

NextStore == StoreUpload \/ Erase

\* The table scenarios: uploads with and without identifier until the table
\* is full and beyond, and erases.
SpecStore == Init /\ [][NextStore]_vars

\* The gate opened and the pin low: from here the pin is high only when this
\* process wrote on to it, and that write was the last to succeed.
GateInit == Init /\ g_gpio_fd = 3 /\ pin = 0

\* The gate scenarios: the driver scenarios on an open gate that starts low,
\* each write to it succeeding or failing.
SpecGate == GateInit /\ [][Next]_vars

(***************************************************************************)
(* PWM scenarios                                                           *)
(***************************************************************************)
\* Effects of the PWM scenarios: the two ends of the PWM range of intensity.
PwmKinds == {Weak, Medium}

PwmInit == Init /\ variant = "pwm"

\* A control message ends the current run of ticks.
PwmUpload ==
    \E kind \in PwmKinds :
        /\ ff_upload(0, kind, TRUE)
        /\ run' = <<>>
        /\ UNCHANGED <<proc, devs, hist>>

PwmPlay ==
    \E val \in Repeats :
        /\ ff_play(0, val)
        /\ run' = <<>>
        /\ UNCHANGED <<proc, devs, hist>>

\* rumble_tick at the end of an iteration; run collects what consecutive
\* ticks that found the effect active before its deadline commanded.
PwmTick ==
    /\ pwm_counter < MaxPwmRun
    /\ loop_tick
    /\ run' = IF active /\ ~timespec_passed(stop_time)
              THEN Append(run, g_gpio_last_state')
              ELSE <<>>
    /\ UNCHANGED <<proc, devs, hist>>

NextPwm == PwmUpload \/ PwmPlay \/ PwmTick \/ Clock

\* The PWM scenarios: one slot holding an effect of the PWM range, play and
\* stop, ticks, and time passing.
SpecPwm == PwmInit /\ [][NextPwm]_vars

(***************************************************************************)
(* Duration scenarios                                                      *)
(***************************************************************************)
\* Every value replay.length can take.
Durations == 0 .. U16_MAX

\* The gate opened and the pin low: the duration does not depend on them.
DurInit == Init /\ g_gpio_fd = 3 /\ pin = 0

\* The one upload of a scenario: an effect of any duration for slot 0.
DurUpload ==
    /\ ~slots[0].in_use
    /\ \E D \in Durations :
          /\ ff_upload(0, [Strong EXCEPT !.length = D], TRUE)
          /\ UNCHANGED aux

\* A play of slot 0, whether or not it is playing already.
DurPlay ==
    /\ ff_play(0, 1)
    /\ UNCHANGED aux

DurClock ==
    \E d \in ClockSteps :
        /\ now < MaxDurSeconds * 1000
        /\ now' = now + d
        /\ Note("clock", NoId, 0)
        /\ NoReply
        /\ wr' = NoWrite
        /\ UNCHANGED <<variant, slots, active, magnitude, stop_time,
                       pwm_counter, g_gpio_fd, g_gpio_last_state, pin, armed,
                       written, aux>>

NextDur == DurUpload \/ DurPlay \/ DurClock

\* The duration scenarios: an effect of any duration is uploaded once and
\* armed, and armed again later.
SpecDur == DurInit /\ [][NextDur]_vars

(***************************************************************************)
(* Main loop (the code is the same in both variants but for the failure    *)
(* path of create_virtual_pad)                                             *)
(***************************************************************************)
\* A control message read from the virtual device.
Msg(t, i, v, k) == [type |-> t, id |-> i, val |-> v, kind |-> k]
NoKind == [type |-> "0", strong |-> 0, weak |-> 0, length |-> 0]

\* Control messages of the main-loop scenarios: the client uploads an
\* effect to slot 0 and then plays and stops it, in any order.  The effect
\* is one of full drive, so that pwm_counter stays put however many
\* iterations the loop makes.
LoopMsgs(n) ==
    IF n = 0
    THEN {Msg("upload", 0, 0, Strong)}
    ELSE {Msg("play", 0, 1, NoKind), Msg("play", 0, 0, NoKind)}

\* struct input_event as read from the physical device.
InputEvent(t, c, v, at) == [type |-> t, code |-> c, value |-> v, time |-> at]

\* The event the physical device delivers at time at after n others: the
\* position of an axis, different from one event to the next.
SrcEvent(n, at) == InputEvent("EV_ABS", 0, n, at)

\* A step that runs no handler of the rumble core.
quiet ==
    UNCHANGED <<variant, slots, active, magnitude, stop_time, pwm_counter,
                g_gpio_fd, g_gpio_last_state, pin, now, up, op, wr, armed,
                written, run>>

\* open(REAL_DEV_PATH, O_RDONLY | O_NONBLOCK); failure is fatal.
OpenSrc ==
    /\ pc = "open"
    /\ \E ok \in BOOLEAN :
          IF ok
          THEN /\ fds' = fds \cup {"src"}
               /\ pc' = "grab"
               /\ UNCHANGED <<status, fail>>
          ELSE /\ fail' = "open"
               /\ status' = 1
               /\ pc' = "exit"
               /\ UNCHANGED fds
    /\ quiet
    /\ UNCHANGED <<keep_running, tlog, devs, hist>>

\* ioctl(src_fd, EVIOCGRAB, 1): the result is not looked at.
GrabSrc ==
    /\ pc = "grab"
    /\ \E ok \in BOOLEAN : fail' = IF ok THEN fail ELSE "grab"
    /\ pc' = "create"
    /\ quiet
    /\ UNCHANGED <<keep_running, status, fds, tlog, devs, hist>>

\* create_virtual_pad(); on failure the physical device is released and
\* closed (the plain variant only closes it) and main returns 1.
CreatePad ==
    /\ pc = "create"
    /\ \E ok \in BOOLEAN :
          IF ok
          THEN /\ fds' = fds \cup {"virt"}
               /\ pc' = "loop"
               /\ UNCHANGED <<status, fail>>
          ELSE /\ fail' = "create"
               /\ fds' = fds \ {"src"}
               /\ status' = 1
               /\ pc' = "exit"
    /\ quiet
    /\ UNCHANGED <<keep_running, tlog, devs, hist>>

\* Variant of the loop test that does not look at keep_running.
loop_test_ignores_flag == "poll"

\* while (keep_running): where the main thread goes from the loop test.
loop_test == IF keep_running # 0 THEN "poll" ELSE "off"

LoopTest ==
    /\ pc = "loop"
    /\ pc' = loop_test
    /\ quiet
    /\ UNCHANGED <<keep_running, status, fds, fail, tlog, devs, hist>>

\* A play and a stop of slot 0 are pending, in this order and nothing
\* else; the slot holds an effect above the deadzone, nothing is active and
\* the actuator is off.
PlayThenStop ==
    /\ vq = <<Msg("play", 0, 1, NoKind), Msg("play", 0, 0, NoKind)>>
    /\ slots[0].in_use
    /\ slots[0].effect.strong + slots[0].effect.weak >= 2000
    /\ ~active
    /\ g_gpio_last_state # 1
    /\ pin = 0

\* Variant of poll_revents with the two entries of fds[] mixed up.
poll_revents_swapped == [src |-> vq # <<>>, virt |-> sq # <<>>]

\* revents as poll() fills them in: POLLIN where something can be read.
poll_revents == [src |-> sq # <<>>, virt |-> vq # <<>>]

\* poll(fds, 2, 10): returns with readiness or on timeout ("ready"), fails
\* with EINTR (continue), or fails otherwise (break).
Poll ==
    /\ pc = "poll"
    /\ \E res \in {"ready", "eintr", "error"} :
          /\ pc' = CASE res = "ready" -> "ff"
                     [] res = "eintr" -> "loop"
                     [] res = "error" -> "off"
          /\ revents' = IF res = "ready" THEN poll_revents ELSE revents
          /\ iter' = [res |-> res,
                      msgs |-> IF res = "ready" THEN Len(vq) ELSE 0,
                      evs |-> IF res = "ready" THEN Len(sq) ELSE 0,
                      done |-> 0, fwd |-> 0, ticks |-> 0]
          /\ wk' = IF res = "ready"
                   THEN [burst |-> PlayThenStop, on |-> FALSE]
                   ELSE NoWakeup
    /\ after' = IF keep_running = 0 /\ after.waits < 2
                THEN [after EXCEPT !.waits = @ + 1] ELSE after
    /\ quiet
    /\ UNCHANGED <<keep_running, status, fds, fail, tlog,
                   vq, nmsg, sq, nev, sink, taken>>

\* One turn of while (read(virt_fd, &ev, sizeof(ev)) == sizeof(ev)): the
\* message at the head of the queue goes to its handler.
HandleMsg ==
    /\ pc = "ff"
    /\ revents.virt
    /\ vq # <<>>
    /\ LET m == Head(vq)
       IN  CASE m.type = "upload" -> ff_upload(m.id, m.kind, TRUE)
             [] m.type = "erase" -> ff_erase(m.id, TRUE)
             [] m.type = "play" -> ff_play(m.id, m.val)
    /\ vq' = Tail(vq)
    /\ iter' = [iter EXCEPT !.done = @ + 1]
    /\ wk' = [wk EXCEPT !.on = @ \/ wr' = 1]
    /\ UNCHANGED <<run, proc, nmsg, sq, nev, sink, taken, revents, after>>

\* The read that finds the virtual device empty, or POLLIN not set.
FfDone ==
    /\ pc = "ff"
    /\ ~(revents.virt /\ vq # <<>>)
    /\ pc' = "fwd"
    /\ quiet
    /\ UNCHANGED <<keep_running, status, fds, fail, tlog, devs, hist>>

\* One turn of while (read(src_fd, ...)) write(virt_fd, ...): the result of
\* the write is not looked at.
Forward ==
    /\ pc = "fwd"
    /\ revents.src
    /\ sq # <<>>
    /\ \E ok \in BOOLEAN :
          sink' = IF ok THEN Append(sink, Head(sq)) ELSE sink
    /\ taken' = Append(taken, Head(sq))
    /\ sq' = Tail(sq)
    /\ iter' = [iter EXCEPT !.fwd = @ + 1]
    /\ quiet
    /\ UNCHANGED <<proc, vq, nmsg, nev, revents, wk, after>>

\* The read that finds the physical device empty, or POLLIN not set.
FwdDone ==
    /\ pc = "fwd"
    /\ ~(revents.src /\ sq # <<>>)
    /\ pc' = "tick"
    /\ quiet
    /\ UNCHANGED <<keep_running, status, fds, fail, tlog, devs, hist>>

\* rumble_tick(&rumble), the last statement of the loop body.
LoopTick ==
    /\ pc = "tick"
    /\ loop_tick
    /\ pc' = "loop"
    /\ iter' = [iter EXCEPT !.ticks = IF @ < 2 THEN @ + 1 ELSE @]
    /\ wk' = [wk EXCEPT !.on = @ \/ wr' = 1]
    /\ after' = IF keep_running = 0 /\ after.ticks < 2
                THEN [after EXCEPT !.ticks = @ + 1] ELSE after
    /\ UNCHANGED <<run, keep_running, status, fds, fail, tlog, devs>>

\* Variant of teardown_gate that leaves the gate as it is.
teardown_gate_skipped ==
    /\ gpio_untouched
    /\ Note("shutdown", NoId, 0)
    /\ NoReply
    /\ UNCHANGED <<variant, slots, active, magnitude, stop_time, pwm_counter,
                   g_gpio_fd, now, armed>>

\* gpio_set(0) after the loop.
teardown_gate ==
    /\ gpio_set(0)
    /\ Note("shutdown", NoId, 0)
    /\ NoReply
    /\ UNCHANGED <<variant, slots, active, magnitude, stop_time, pwm_counter,
                   g_gpio_fd, now, armed>>

\* gpio_set(0); if (g_gpio_fd >= 0) close(g_gpio_fd);
TeardownGate ==
    /\ pc = "off"
    /\ teardown_gate
    /\ tlog' = tlog \o <<"gpio_off">>
                    \o (IF g_gpio_fd >= 0 THEN <<"close_gpio">> ELSE <<>>)
    /\ fds' = fds \ {"gpio"}
    /\ pc' = "destroy"
    /\ UNCHANGED <<run, keep_running, status, fail, devs, hist>>

\* ioctl(virt_fd, UI_DEV_DESTROY); close(virt_fd);
TeardownVirtual ==
    /\ pc = "destroy"
    /\ tlog' = tlog \o <<"destroy", "close_virt">>
    /\ fds' = fds \ {"virt"}
    /\ pc' = "ungrab"
    /\ quiet
    /\ UNCHANGED <<keep_running, status, fail, devs, hist>>

\* ioctl(src_fd, EVIOCGRAB, 0); close(src_fd); return 0;
TeardownSource ==
    /\ pc = "ungrab"
    /\ tlog' = tlog \o <<"ungrab", "close_src">>
    /\ fds' = fds \ {"src"}
    /\ status' = 0
    /\ pc' = "exit"
    /\ quiet
    /\ UNCHANGED <<keep_running, fail, devs, hist>>

\* handle_signal: SIGINT or SIGTERM is delivered to the running process.
Signal ==
    /\ pc # "exit"
    /\ keep_running = 1
    /\ keep_running' = 0
    /\ quiet
    /\ UNCHANGED <<pc, status, fds, fail, tlog, devs, hist>>

\* A client of the virtual device sends a control message, one of at most
\* max.
MsgArrives(max) ==
    /\ "virt" \in fds
    /\ nmsg < max
    /\ \E m \in LoopMsgs(nmsg) : vq' = Append(vq, m)
    /\ nmsg' = nmsg + 1
    /\ quiet
    /\ UNCHANGED <<proc, sq, nev, sink, taken, revents, hist>>

\* The physical device delivers an event, one of at most max.
EvArrives(max) ==
    /\ "src" \in fds
    /\ nev < max
    /\ sq' = Append(sq, SrcEvent(nev, now))
    /\ nev' = nev + 1
    /\ quiet
    /\ UNCHANGED <<proc, vq, nmsg, sink, taken, revents, hist>>

MsgArrive == MsgArrives(MaxMsgs)

EvArrive == EvArrives(MaxEvents)

LastMsg == MsgArrives(MaxShutdownMsgs)

LastEvent == EvArrives(MaxShutdownEvents)

\* The statements of main(), one at a time.
MainThread ==
    \/ OpenSrc \/ GrabSrc \/ CreatePad
    \/ LoopTest \/ Poll \/ HandleMsg \/ FfDone \/ Forward \/ FwdDone
    \/ LoopTick
    \/ TeardownGate \/ TeardownVirtual \/ TeardownSource

NextLoop == MainThread \/ Signal \/ MsgArrive \/ EvArrive

\* The main-loop scenarios: main() from its first statement to its return,
\* with control messages and physical events arriving and a termination
\* signal delivered at any point.
SpecLoop == Init /\ [][NextLoop]_vars

NextShutdown == MainThread \/ Signal \/ LastMsg \/ LastEvent

\* The shutdown scenarios: main() scheduled fairly, with little traffic and
\* a termination signal delivered at any point.
SpecShutdown == Init /\ [][NextShutdown]_vars /\ WF_vars(MainThread)

(***************************************************************************)
(* Properties                                                              *)
(*                                                                         *)
(* A step is recognised by the handler it leaves in op'; unprimed          *)
(* variables are the state the handler found, primed ones the state it     *)
(* left.                                                                   *)
(***************************************************************************)
\* The hard ceiling on a resolved duration, per variant.
Ceiling ==
    IF variant = "pwm" THEN SAFETY_TIMEOUT_MS ELSE RUMBLE_MAX_DURATION_MS

\* slot id holds an effect that play may arm
InUse(id) == id \in SlotIndex /\ slots[id].in_use

\* The step is a play with repeat > 0 that armed the effect of an in-use slot.
ArmingStep ==
    /\ op'.name = "play"
    /\ op'.val > 0
    /\ InUse(op'.id)
    /\ active'

TableFull == \A i \in SlotIndex : slots[i].in_use

\* C1 (both variants). Watchdog: an arming play at time t sets the deadline
\* to t + d with 1 <= d <= ceiling (3000 ms pwm, 5000 ms plain); a tick that
\* finds the effect active at a time >= the deadline clears the active flag
\* and commands the gate off; a tick that finds nothing active leaves
\* it inactive and never commands the gate on.
C1_Watchdog ==
    [][ /\ ArmingStep => (Millis(stop_time') - now) \in 1 .. Ceiling
        /\ (op'.name = "tick" /\ active /\ now >= Millis(stop_time))
              => (~active' /\ g_gpio_last_state' = 0 /\ wr' # 1)
        /\ (op'.name = "tick" /\ ~active)
              => (~active' /\ g_gpio_last_state' # 1 /\ wr' # 1)
      ]_vars

\* C1 witness: a tick at the very instant of the deadline has cleared the
\* active flag and written off to the pin.
C1_Witness ==
    /\ op.name = "tick"
    /\ Millis(stop_time) > 0
    /\ now = Millis(stop_time)
    /\ ~active
    /\ wr = 0

\* C2 (pwm). Unconditional stop: play(id, 0), whatever the id and the state
\* it finds, returns with the active flag false and the gate commanded off,
\* and every tick that finds nothing active commands the gate off.
C2_StopPwm ==
    [][ /\ (variant = "pwm" /\ op'.name = "play" /\ op'.val = 0)
              => (~active' /\ g_gpio_last_state' = 0)
        /\ (variant = "pwm" /\ op'.name = "tick" /\ ~active)
              => (~active' /\ g_gpio_last_state' = 0)
      ]_vars

\* C2 witness: a stop naming an identifier past the table has switched a
\* running actuator off.
C2_Witness ==
    /\ variant = "pwm"
    /\ op = Op("play", RUMBLE_MAX_EFFECTS, 0)
    /\ now < Millis(stop_time)
    /\ ~active
    /\ wr = 0

\* C3 (plain), the claim as stated: after play(id, 0), whatever the id, the
\* next tick leaves rumble_active false and the gate not commanded on.
C3_StopPlain ==
    [][ (variant = "plain" /\ op.name = "play" /\ op.val = 0
            /\ op'.name = "tick")
          => (~active' /\ g_gpio_last_state' # 1)
      ]_vars

\* C4 (both variants). Erasing the slot an active effect was armed from
\* frees the slot, clears the active flag and commands the gate off in the
\* same step, whatever remains of the deadline; the tick after an erase of
\* a slot of the table leaves the gate off; the gate goes on only while an
\* effect is active, and an effect becomes active only by a play with
\* repeat > 0 naming an in-use slot.
C4_EraseStops ==
    [][ /\ (op'.name = "erase" /\ active /\ op'.id = armed)
              => (/\ ~slots'[op'.id].in_use
                  /\ ~active'
                  /\ g_gpio_last_state' = 0)
        /\ (op.name = "erase" /\ op.id \in SlotIndex /\ op'.name = "tick")
              => (~active' /\ g_gpio_last_state' = 0 /\ wr' # 1)
        /\ (g_gpio_last_state' = 1 /\ g_gpio_last_state # 1) => active'
        /\ (active' /\ ~active) => ArmingStep
      ]_vars

\* C4 witness: the erase of the armed slot has written off to the pin
\* before the deadline was reached.
C4_Witness ==
    /\ op.name = "erase"
    /\ op.id = armed
    /\ now < Millis(stop_time)
    /\ ~slots[armed].in_use
    /\ ~active
    /\ wr = 0

\* C5 (table scenarios). Every in-use slot i holds an effect whose stored
\* id is i; a successful upload of a rumble effect writes back the index of
\* the one slot it changed: the id the caller named, or else the first slot
\* that was free.
C5_SlotIds ==
    [][ /\ \A i \in SlotIndex : slots'[i].in_use => slots'[i].effect.id = i
        /\ (op'.name = "upload" /\ up'.type = "FF_RUMBLE" /\ up'.ret = 0)
              => (/\ up'.effect_id \in SlotIndex
                  /\ slots'[up'.effect_id].in_use
                  /\ \A j \in SlotIndex \ {up'.effect_id} : slots'[j] = slots[j]
                  /\ op'.id >= 0 => up'.effect_id = op'.id
                  /\ op'.id < 0 =>
                        /\ ~slots[up'.effect_id].in_use
                        /\ \A j \in SlotIndex :
                              j < up'.effect_id => slots[j].in_use)
      ]_vars

\* C5 witness: an upload without identifier has been given the erased slot
\* 1 while slot 2 and the last slot are in use.
C5_Witness ==
    /\ op = Op("upload", NoId, 0)
    /\ up.type = "FF_RUMBLE"
    /\ up.effect_id = 1
    /\ slots[1].in_use
    /\ slots[2].in_use
    /\ slots[RUMBLE_MAX_EFFECTS - 1].in_use

\* C6 (table scenarios). A rumble upload without identifier that finds all
\* 16 slots in use returns -ENOSPC, and a rumble upload naming an id >= 16
\* returns -EINVAL; both leave every slot and the caller's id as they were.
C6_UploadRefused ==
    [][ /\ (op'.name = "upload" /\ up'.type = "FF_RUMBLE" /\ op'.id < 0
              /\ TableFull)
              => (/\ up'.ret = 0 - ENOSPC
                  /\ slots' = slots
                  /\ up'.effect_id = op'.id)
        /\ (op'.name = "upload" /\ up'.type = "FF_RUMBLE"
              /\ op'.id >= RUMBLE_MAX_EFFECTS)
              => (/\ up'.ret = 0 - EINVAL
                  /\ slots' = slots
                  /\ up'.effect_id = op'.id)
      ]_vars

\* C6 witness: an upload without identifier has been refused on a full table.
C6_Witness ==
    /\ op = Op("upload", NoId, 0)
    /\ up.type = "FF_RUMBLE"
    /\ up.ret = 0 - ENOSPC
    /\ TableFull

\* C7 (table scenarios), the claim as stated: when an upload without
\* identifier is refused for lack of a free slot, the retval handed back
\* through UI_END_FF_UPLOAD is negative.
C7_NegativeAck ==
    (op.name = "upload" /\ up.ret = 0 - ENOSPC) => up.retval < 0

\* The step is an erase or a play with repeat > 0 that names an id out of
\* range or a slot not in use.
InvalidReference ==
    /\ \/ op'.name = "erase"
       \/ op'.name = "play" /\ op'.val > 0
    /\ ~InUse(op'.id)

DeadzonePlay(o) ==
    /\ o.name = "play"
    /\ o.val > 0
    /\ InUse(o.id)
    /\ slots[o.id].effect.strong + slots[o.id].effect.weak < 2000

\* C9 (pwm). Deadzone: a play with repeat > 0 of an in-use effect with
\* strong + weak < 2000 returns with the active flag false and the gate
\* commanded off, having written no on; while an effect is active its
\* intensity is at least 2000, and the gate goes on only while an effect is
\* active; a play(id, 0) right after the deadzone play changes nothing.
C9_Deadzone ==
    [][ /\ (variant = "pwm" /\ DeadzonePlay(op'))
              => (~active' /\ g_gpio_last_state' = 0 /\ wr' # 1)
        /\ (variant = "pwm" /\ active') => magnitude' >= 2000
        /\ (variant = "pwm" /\ g_gpio_last_state' = 1 /\ g_gpio_last_state # 1)
              => active'
        /\ (variant = "pwm" /\ DeadzonePlay(op) /\ op'.name = "play"
              /\ op'.val = 0)
              => (/\ UNCHANGED ctx
                  /\ wr' = NoWrite)
      ]_vars

\* C9 witness: the play of an effect below the deadzone has switched off an
\* actuator that an earlier effect was driving.
C9_Witness ==
    /\ variant = "pwm"
    /\ DeadzonePlay(op)
    /\ now < Millis(stop_time)
    /\ ~active
    /\ wr = 0

\* C10 (pwm). Full drive: an arming play stores the sum of the effect's
\* magnitudes as the intensity; a tick that finds an effect of intensity
\* >= 40000 active strictly before its deadline commands the gate on, writes
\* no off, keeps the effect active and does not advance the PWM counter.
C10_FullDrive ==
    [][ /\ (variant = "pwm" /\ ArmingStep)
              => magnitude' = slots[op'.id].effect.strong
                                + slots[op'.id].effect.weak
        /\ (variant = "pwm" /\ op'.name = "tick" /\ active
              /\ magnitude >= 40000 /\ now < Millis(stop_time))
              => (/\ active'
                  /\ g_gpio_last_state' = 1
                  /\ wr' # 0
                  /\ pwm_counter' = pwm_counter)
      ]_vars

\* C10 witness: a tick before the deadline of an effect of intensity 40000
\* found the gate already on and left it on without a write.
C10_Witness ==
    /\ variant = "pwm"
    /\ op.name = "tick"
    /\ active
    /\ magnitude = 40000
    /\ now > 0
    /\ now < Millis(stop_time)
    /\ g_gpio_last_state = 1
    /\ wr = NoWrite

\* Four consecutive ticks of the PWM pattern: two on, two off, each pair
\* adjacent (the window may start anywhere in the period).
PwmWindows == {<<1, 1, 0, 0>>, <<0, 1, 1, 0>>, <<0, 0, 1, 1>>, <<1, 0, 0, 1>>}

\* C11 (pwm). Software PWM: while an effect of intensity in [2000, 40000) is
\* active and no control message intervenes, the commands of consecutive
\* ticks before the deadline repeat with period 4, on for two consecutive
\* ticks and off for two consecutive ticks: every window of four consecutive
\* ticks holds exactly two on and two off.
C11_PwmPattern ==
    (variant = "pwm" /\ magnitude >= 2000 /\ magnitude < 40000)
        => \A i \in 1 .. Len(run) :
            /\ i + 3 <= Len(run)
                  => /\ SubSeq(run, i, i + 3) \in PwmWindows
                     /\ Cardinality({k \in i .. i + 3 : run[k] = 1}) = 2
                     /\ Cardinality({k \in i .. i + 3 : run[k] = 0}) = 2
            /\ i + 4 <= Len(run) => run[i + 4] = run[i]

\* C11 witness: eight consecutive PWM ticks of one effect, two periods.
C11_Witness ==
    /\ variant = "pwm"
    /\ active
    /\ magnitude >= 2000
    /\ magnitude < 40000
    /\ Len(run) = 8
    /\ op.name = "tick"

\* C12 as stated. Debounce: a handler whose gpio_set finds the gate already
\* commanded to the requested state issues no write; one that changes the
\* commanded state issues exactly one write, of that state, and records it;
\* no value is written twice in a row.
C12_Debounce ==
    [][ /\ g_gpio_last_state' = g_gpio_last_state => wr' = NoWrite
        /\ g_gpio_last_state' # g_gpio_last_state
              => wr' = g_gpio_last_state' /\ written' = wr'
        /\ wr' # NoWrite => wr' # written
      ]_vars

\* C12 (amended). Debounce: as C12_Debounce, but the one write is issued
\* only on an open descriptor: when opening the gate failed (g_gpio_fd < 0)
\* a change of the commanded state is recorded and nothing is written.
C12_DebounceOpen ==
    [][ /\ g_gpio_last_state' = g_gpio_last_state
              => wr' = NoWrite /\ written' = written
        /\ (g_gpio_last_state' # g_gpio_last_state /\ g_gpio_fd >= 0)
              => wr' = g_gpio_last_state' /\ written' = wr'
        /\ (g_gpio_last_state' # g_gpio_last_state /\ g_gpio_fd < 0)
              => wr' = NoWrite /\ written' = written
        /\ wr' # NoWrite => wr' # written
      ]_vars

\* C12 witness: an idle tick of the PWM variant asked for off while off was
\* the value written last, and wrote nothing.
C12_Witness ==
    /\ variant = "pwm"
    /\ op.name = "tick"
    /\ ~active
    /\ g_gpio_fd >= 0
    /\ g_gpio_last_state = 0
    /\ written = 0
    /\ wr = NoWrite

\* C13. No spurious pulse: a wakeup that finds a play and then a stop of an
\* in-use effect above the deadzone pending, nothing active and the actuator
\* off, writes no on to the actuator.
C13_NoPulse == wk.burst => ~wk.on

\* The wait returned res, one of results, and the thread went to whereto.
PollReturned(results, whereto) ==
    (pc = "poll" /\ pc' # pc /\ iter'.res \in results) => pc' = whereto

\* From the wait on, an iteration handles the messages that were pending,
\* then reads the events that were pending, then ticks once; messages are
\* handled, events read and ticks run nowhere else.
IterationOrder ==
    /\ (pc = "ff" /\ pc' # pc) => (pc' = "fwd" /\ iter.done >= iter.msgs)
    /\ (pc = "fwd" /\ pc' # pc) => (pc' = "tick" /\ iter.fwd >= iter.evs)
    /\ (pc = "tick" /\ pc' # pc)
          => (pc' = "loop" /\ op'.name = "tick" /\ iter.ticks = 0
                /\ iter'.ticks = 1)
    /\ (vq' # vq /\ nmsg' = nmsg) => (pc = "ff" /\ pc' = "ff")
    /\ taken' # taken => (pc = "fwd" /\ pc' = "fwd")
    /\ (iter'.ticks # iter.ticks /\ pc # "poll") => pc = "tick"

\* C14 as stated. Main-loop ordering: after every return of the readiness
\* wait, by readiness, timeout or interruption, the messages pending are
\* handled, then the events pending are forwarded, then rumble_tick runs
\* exactly once before the loop test is reached again.
C14_LoopOrder ==
    [][ /\ PollReturned({"ready", "eintr"}, "ff")
        /\ IterationOrder
        /\ (pc = "loop" /\ iter.res \in {"ready", "eintr"}) => iter.ticks = 1
      ]_vars

\* C14 (amended). Main-loop ordering: after every return of the readiness
\* wait by readiness or timeout the messages pending are handled, then the
\* events pending are forwarded, then rumble_tick runs exactly once before
\* the loop test is reached again; an interrupted wait goes back to the
\* loop test with nothing handled, forwarded or ticked.
C14_LoopOrderReady ==
    [][ /\ PollReturned({"ready"}, "ff")
        /\ PollReturned({"eintr"}, "loop")
        /\ IterationOrder
        /\ (pc = "loop" /\ iter.res = "ready") => iter.ticks = 1
        /\ (pc = "loop" /\ iter.res = "eintr")
              => (iter.done = 0 /\ iter.fwd = 0 /\ iter.ticks = 0)
      ]_vars

\* C14 witness: an iteration that found two messages and an event pending
\* is back at the loop test, its one tick done.
C14_Witness ==
    /\ pc = "loop"
    /\ iter.res = "ready"
    /\ iter.msgs = 2
    /\ iter.evs = 1
    /\ iter.done >= 2
    /\ iter.fwd = 1
    /\ iter.ticks = 1

\* C15. Event forwarding: the events written to the virtual device are
\* exactly the events read from the physical device, with the same type,
\* code, value and timestamp, in the same order, none twice and none missing.
C15_Forwarding == sink = taken

\* The calls of log hold, in this order: the actuator commanded off, the
\* virtual device destroyed, the grab released, the physical device closed.
TeardownOrder(log) ==
    \E i, j, k, l \in 1 .. Len(log) :
        /\ i < j /\ j < k /\ k < l
        /\ log[i] = "gpio_off"
        /\ log[j] = "destroy"
        /\ log[k] = "ungrab"
        /\ log[l] = "close_src"

C17_FatalInit ==
    fail # "none"
        => /\ pc \in {"create", "exit"}
           /\ pc = "exit" => status > 0
           /\ iter = NoIteration
           /\ taken = <<>>
           /\ sink = <<>>
           /\ written = NoWrite

\* C19. Shutdown latency: once keep_running is cleared, at most one more
\* wait and at most one more rumble_tick run before the teardown, and the
\* process reaches its exit.
C19_ShutdownLatency ==
    /\ [](after.waits <= 1 /\ after.ticks <= 1)
    /\ (keep_running = 0) ~> (pc = "exit")

\* C19 witness: main has returned after a signal that was followed by one
\* more wait and one more tick.
C19_Witness ==
    /\ pc = "exit"
    /\ status = 0
    /\ keep_running = 0
    /\ after.waits = 1
    /\ after.ticks = 1

\* The duration the claim resolves D to: D, or the default when D is 0, and
\* no more than the ceiling.
Resolved(D, default, ceiling) ==
    LET d == IF D # 0 THEN D ELSE default
    IN  IF d > ceiling THEN ceiling ELSE d

\* C18 (both variants). Duration resolution: an arming play of an effect of
\* requested duration D, whether or not an effect is active already, sets
\* the deadline to now + r, where r is D (the default when D is 0: 3000 pwm,
\* 200 plain) clamped to the ceiling (3000 pwm, 5000 plain); r lies in
\* [1, ceiling], so the deadline is in the future and at most ceiling away.
C18_Duration ==
    [][ ArmingStep =>
          LET D == slots[op'.id].effect.length
              r == IF variant = "pwm" THEN Resolved(D, 3000, 3000)
                                      ELSE Resolved(D, 200, 5000)
              ceiling == IF variant = "pwm" THEN 3000 ELSE 5000
          IN  /\ r >= 1
              /\ r <= ceiling
              /\ Millis(stop_time') = now + r
              /\ Millis(stop_time') > now
              /\ Millis(stop_time') <= now + ceiling
      ]_vars

\* C18 witness: the effect of the longest duration was armed at 1500 ms,
\* when its earlier deadline had not passed, and its deadline is the
\* ceiling away from the time of that play.
C18_Witness ==
    /\ op.name = "play"
    /\ active
    /\ now = 1500
    /\ slots[0].effect.length = 65535
    /\ Millis(stop_time) = now + Ceiling

\* C20 (both variants). Between any two operations, a gate whose last
\* commanded state is on means that an effect is active and that the slot it
\* was armed from is still in use.
C20_GateOnMeansActive ==
    g_gpio_last_state = 1
        => /\ active
           /\ armed \in SlotIndex
           /\ slots[armed].in_use

\* C20 witness: the gate is on for an active effect whose slot was uploaded
\* to again while it played.
C20_Witness ==
    /\ g_gpio_last_state = 1
    /\ active
    /\ armed = 0
    /\ slots[armed].in_use
    /\ op.name = "upload"
    /\ op.id = armed

\* C21 (both variants). Actuator off under write failures: a tick that finds
\* nothing active leaves the pin low, and whenever the gate's cached state
\* is off the pin is low (the pin starts low, so a high pin is an on that
\* this process wrote and that no later write replaced).
C21_ActuatorOff ==
    [][ /\ (op'.name = "tick" /\ ~active) => pin' = 0
        /\ g_gpio_last_state' = 0 => pin' = 0
      ]_vars

\* C22 (pwm). PWM phase at arming: the tick that follows the arming play of
\* an effect of intensity in [2000, 40000), before its deadline, commands
\* the gate on, whatever pwm_counter was when the effect was armed.
C22_PhaseAtArming ==
    [][ (/\ variant = "pwm"
         /\ op.name = "play"
         /\ op.val > 0
         /\ active
         /\ magnitude >= 2000
         /\ magnitude < 40000
         /\ now < Millis(stop_time)
         /\ op'.name = "tick")
            => g_gpio_last_state' = 1
      ]_vars

====
